---- MODULE Spec2Model ----
(***************************************************************************)
(* Closest-stops resolution of the CTA client library.                     *)
(*                                                                         *)
(* The state is the locally cached static feed: the stops table of the     *)
(* sqlite store read by cta/static.py, and the frames a StopSearch object  *)
(* of cta/cta.py loads in its constructor.  Every lookup is one action     *)
(* that records which operation ran, with which arguments, and what it     *)
(* returned.                                                               *)
(***************************************************************************)
EXTENDS Integers, Sequences, FiniteSets, TLC

VARIABLES
    feed,           \* rows of cta_google_transit/stops.txt, in file order
    stops,          \* the stops table of the sqlite store (update_static_db)
    cta_stops,      \* StopSearch.__cta_stops
    route_stops,    \* StopSearch.__route_stops
    train_stops,    \* StopSearch.__train_stops
    op,             \* the operation that ran last
    args,           \* its arguments
    result,         \* what it returned
    sort_ties,      \* how the sort of the installed numpy orders rows of equal key
    prev,           \* the call before, when the caller repeats a call
    published,      \* the version of each data file on disk
    held,           \* the version of each frame the StopSearch object holds
    job,            \* the step the refresh job (update_all) is at
    gtfs,           \* cta_google_transit/: the version of each file in it
    db,             \* the state of the stops table of the sqlite store
    run             \* the local variables of the refresh job's current call

vars == <<feed, stops, cta_stops, route_stops, train_stops, op, args, result,
          sort_ties, prev, published, held, job, gtfs, db, run>>

store == <<feed, stops, cta_stops, route_stops, train_stops>>

\* what a lookup leaves alone besides the store
env == <<sort_ties, prev, published, held, job, gtfs, db, run>>

----------------------------------------------------------------------------
(* Bounds of the model *)

\* limits (number / limit) are drawn from 0..MaxLimit
MaxLimit == 2

\* the origin's latitude is drawn from 0..MaxLat
MaxLat == 2

\* the refresh job publishes versions 1..MaxVersion of the data files
MaxVersion == 2

\* fetch_all is given at most MaxUrls URLs
MaxUrls == 3

----------------------------------------------------------------------------
(* Values *)

\* Python's None for an optional argument, and a supplied value
None == <<>>
Some(x) == <<x>>

Reverse(s) == [i \in 1..Len(s) |-> s[Len(s) + 1 - i]]

Range(s) == {s[i] : i \in 1..Len(s)}

\* stop_id namespace: below 30000 bus, 30000..39999 platform, from 40000 parent
FIRST_TRAIN_ID == 30000
FIRST_PARENT_ID == 40000

----------------------------------------------------------------------------
(* The static feed the model draws its inventories from: a synthetic       *)
(* stops.txt with two bus stops, two parent stations and their platforms.  *)
(* Coordinates are points of a small grid; parent_station is the csv       *)
(* field, empty for bus stops and for parent stations; stop_desc is        *)
(* modelled by the set of lower-case direction words it contains: the      *)
(* description of bus stop 2 names no direction.                           *)

GTFS_STOPS == <<
    [stop_id |-> 1,     stop_lat |-> 0, stop_lon |-> 0, parent_station |-> None,
     stop_desc |-> {"northbound"}],
    [stop_id |-> 40001, stop_lat |-> 0, stop_lon |-> 0, parent_station |-> None,
     stop_desc |-> {}],
    [stop_id |-> 30001, stop_lat |-> 0, stop_lon |-> 0, parent_station |-> Some(40001),
     stop_desc |-> {}],
    [stop_id |-> 30002, stop_lat |-> 1, stop_lon |-> 0, parent_station |-> Some(40001),
     stop_desc |-> {}],
    [stop_id |-> 2,     stop_lat |-> 2, stop_lon |-> 0, parent_station |-> None,
     stop_desc |-> {}],
    [stop_id |-> 40002, stop_lat |-> 2, stop_lon |-> 0, parent_station |-> None,
     stop_desc |-> {}],
    [stop_id |-> 30003, stop_lat |-> 2, stop_lon |-> 0, parent_station |-> Some(40002),
     stop_desc |-> {}]
>>

RECURSIVE PickRows(_, _)
PickRows(S, i) ==
    IF i > Len(GTFS_STOPS) THEN <<>>
    ELSE (IF i \in S THEN <<GTFS_STOPS[i]>> ELSE <<>>) \o PickRows(S, i + 1)

\* every selection of rows of the feed, in file order or in reverse order
Feeds ==
    LET fwd == {PickRows(S, 1) : S \in SUBSET (1..Len(GTFS_STOPS))}
    IN  fwd \cup {Reverse(f) : f \in fwd}

Origins == {<<lat, 0>> : lat \in 0..MaxLat}

Limits == 0..MaxLimit

----------------------------------------------------------------------------
(* Distance *)

\* great-circle distance of the haversine package, on the grid: the squared
\* chord, which orders pairs of grid points as the great circle does
haversine(p1, p2) ==
    (p1[1] - p2[1]) * (p1[1] - p2[1]) + (p1[2] - p2[2]) * (p1[2] - p2[2])

\* utils.distance(Point, Point), used by cta/static.py
distance(p1, p2) == haversine(p1, p2)

\* utils.Point(lat, lon)
Point(lat, lon) == <<lat, lon>>

----------------------------------------------------------------------------
(* Python list operations *)

\* mutant of Slice: s[-n:], the last n items
SliceFromEnd(s, n) ==
    IF n <= 0 \/ n >= Len(s) THEN (IF n <= 0 THEN <<>> ELSE s)
    ELSE SubSeq(s, Len(s) - n + 1, Len(s))

\* s[:n], and DataFrame.head(n): the first n items, all but the last -n for n < 0
Slice(s, n) ==
    LET k == IF n >= 0 THEN (IF n < Len(s) THEN n ELSE Len(s))
             ELSE (IF Len(s) + n > 0 THEN Len(s) + n ELSE 0)
    IN  SubSeq(s, 1, k)

\* insert row x with key kx behind every row of s whose key is <= kx
RECURSIVE InsertByDistance(_, _, _)
InsertByDistance(s, x, point) ==
    IF s = <<>> THEN <<x>>
    ELSE LET last == s[Len(s)]
         IN  IF distance(Point(last.stop_lat, last.stop_lon), point)
                  <= distance(Point(x.stop_lat, x.stop_lon), point)
             THEN Append(s, x)
             ELSE Append(InsertByDistance(SubSeq(s, 1, Len(s) - 1), x, point), last)

\* data.sort(key=lambda x: utils.distance(Point(x.stop_lat, x.stop_lon), point)):
\* list.sort is stable
RECURSIVE SortByDistanceFrom(_, _, _)
SortByDistanceFrom(data, point, i) ==
    IF i = 0 THEN <<>>
    ELSE InsertByDistance(SortByDistanceFrom(data, point, i - 1), data[i], point)

\* mutant of SortByDistance: the sort is left out
Unsorted(data, point) == data

SortByDistance(data, point) == SortByDistanceFrom(data, point, Len(data))

----------------------------------------------------------------------------
(* cta/static.py: the sqlite store *)

\* CAST(x as INTEGER) of sqlite: the empty csv field becomes 0
CastInteger(x) == IF x = None THEN 0 ELSE x[1]

\* update_static_db("stops"): the csv rows inserted, then cast column by column
update_static_db(rows) ==
    [i \in 1..Len(rows) |->
        [stop_id        |-> rows[i].stop_id,
         stop_lat       |-> rows[i].stop_lat,
         stop_lon       |-> rows[i].stop_lon,
         parent_station |-> CastInteger(rows[i].parent_station),
         stop_desc      |-> rows[i].stop_desc]]

\* the stop_type values callers pass: unspecified, "Bus", "Train"
StopTypes == {"None", "Bus", "Train"}

lower(s) ==
    CASE s = "Train" -> "train"
      [] s = "Bus"   -> "bus"
      [] s = "Northbound" -> "northbound"
      [] s = "Southbound" -> "southbound"
      [] s = "Eastbound"  -> "eastbound"
      [] s = "Westbound"  -> "westbound"
      [] OTHER       -> s

\* stop_type is StopType.TRAIN or str(stop_type).lower() == "train"
IsTrainType(stop_type) ==
    stop_type = "StopType.TRAIN" \/ lower(stop_type) = "train"

\* CTAdb.stops(stop_type=...): the WHERE clause built from stop_type
StopTypeWhere(stop_type, row) ==
    IF stop_type = "None" THEN TRUE
    ELSE IF IsTrainType(stop_type) THEN row.stop_id >= FIRST_TRAIN_ID
    ELSE row.parent_station < FIRST_TRAIN_ID

\* CTAdb.stops(stop_type=...): SELECT * FROM stops WHERE ..., in table order
ctadb_stops(table, stop_type) ==
    LET keep(row) == StopTypeWhere(stop_type, row)
    IN  SelectSeq(table, keep)

----------------------------------------------------------------------------
(* cta/static.py: closest_stops *)

IsParentRow(d) == d.stop_id >= FIRST_PARENT_ID

IsChildRow(d) == FIRST_TRAIN_ID <= d.stop_id /\ d.stop_id < FIRST_PARENT_ID

\* mutant of GroupChildStops: the rows are matched on stop_id, which returns
\* the parent records instead of their platforms
GroupChildStopsByStopId(data, number) ==
    LET parent_stop_data == SelectSeq(data, IsParentRow)
        top == SubSeq(parent_stop_data, 1, IF number < Len(parent_stop_data) THEN number
                                              ELSE Len(parent_stop_data))
        parent_stations == {top[i].stop_id : i \in 1..Len(top)}
        InGroup(d) == d.stop_id \in parent_stations
    IN  SelectSeq(data, InGroup)

\* mutant of GroupChildStops: the platforms are truncated to `number`
GroupChildStopsTruncated(data, number) ==
    LET parent_stop_data == SelectSeq(data, IsParentRow)
        top == SubSeq(parent_stop_data, 1, IF number < Len(parent_stop_data) THEN number
                                              ELSE Len(parent_stop_data))
        parent_stations == {top[i].stop_id : i \in 1..Len(top)}
        InGroup(d) == d.parent_station \in parent_stations
        grouped == SelectSeq(data, InGroup)
    IN  SubSeq(grouped, 1, IF number < Len(grouped) THEN number ELSE Len(grouped))

\* mutant of GroupChildStops: one parent station too few is selected
GroupChildStopsShort(data, number) ==
    LET parent_stop_data == SelectSeq(data, IsParentRow)
        k == IF number - 1 < Len(parent_stop_data) THEN number - 1
             ELSE Len(parent_stop_data)
        top == SubSeq(parent_stop_data, 1, IF k < 0 THEN 0 ELSE k)
        parent_stations == {top[i].stop_id : i \in 1..Len(top)}
        InGroup(d) == d.parent_station \in parent_stations
    IN  SelectSeq(data, InGroup)

\* the group_child_stops branch: the first `number` parents of the ranked
\* list, then every ranked row whose parent_station is one of them
GroupChildStops(data, number) ==
    LET parent_stop_data == SelectSeq(data, IsParentRow)
        top == Slice(parent_stop_data, number)
        parent_stations == {top[i].stop_id : i \in 1..Len(top)}
        InGroup(d) == d.parent_station \in parent_stations
    IN  SelectSeq(data, InGroup)

\* mutant of closest_stops: the ranked list is truncated before the tier
\* filter is applied
closest_stops_truncated_first(table, lat, lon, number, stop_type, child_stops_only, parent_stops_only, group_child_stops) ==
    LET point == Point(lat, lon)
        data == SortByDistance(ctadb_stops(table, stop_type), point)
    IN  IF stop_type = "Train" /\ group_child_stops
        THEN GroupChildStops(data, number)
        ELSE IF stop_type = "Train" /\ parent_stops_only
        THEN SelectSeq(Slice(data, number), IsParentRow)
        ELSE IF stop_type = "Train" /\ child_stops_only
        THEN SelectSeq(Slice(data, number), IsChildRow)
        ELSE Slice(data, number)

\* mutant of closest_stops: parent_stops_only is tested before
\* group_child_stops
closest_stops_parents_first(table, lat, lon, number, stop_type, child_stops_only, parent_stops_only, group_child_stops) ==
    LET point == Point(lat, lon)
        data == SortByDistance(ctadb_stops(table, stop_type), point)
    IN  IF stop_type = "Train" /\ parent_stops_only
        THEN Slice(SelectSeq(data, IsParentRow), number)
        ELSE IF stop_type = "Train" /\ group_child_stops
        THEN GroupChildStops(data, number)
        ELSE IF stop_type = "Train" /\ child_stops_only
        THEN Slice(SelectSeq(data, IsChildRow), number)
        ELSE Slice(data, number)

\* closest_stops(lat, lon, number=, stop_type=, child_stops_only=,
\*               parent_stops_only=, group_child_stops=)
closest_stops(table, lat, lon, number, stop_type, child_stops_only, parent_stops_only, group_child_stops) ==
    LET point == Point(lat, lon)
        data == SortByDistance(ctadb_stops(table, stop_type), point)
    IN  IF stop_type = "Train" /\ group_child_stops
        THEN GroupChildStops(data, number)
        ELSE IF stop_type = "Train" /\ parent_stops_only
        THEN Slice(SelectSeq(data, IsParentRow), number)
        ELSE IF stop_type = "Train" /\ child_stops_only
        THEN Slice(SelectSeq(data, IsChildRow), number)
        ELSE Slice(data, number)

----------------------------------------------------------------------------
(* cta/utils.py, cta/utils_cta.py: helpers of the pandas-based classes *)

\* str(n) of an integer: a string of digits, which is not the integer
Str(n) == <<"str", n>>

\* round(float(x), 15) of a coordinate: grid coordinates are integers, whose
\* float is exact and which rounding to 15 decimals leaves alone
Float15(x) == x

\* mutant of get_distance: the latitude of the second point is dropped
get_distance_from_equator(x1, y1, x2, y2) ==
    haversine(<<Float15(x1), Float15(y1)>>, <<0, Float15(y2)>>)

\* utils.get_distance(x1, y1, x2, y2)
get_distance(x1, y1, x2, y2) ==
    haversine(<<Float15(x1), Float15(y1)>>, <<Float15(x2), Float15(y2)>>)

\* str.lower() of the direction spellings callers use
LowerDirection(d) ==
    CASE d \in {"N", "n"} -> "n"
      [] d \in {"S", "s"} -> "s"
      [] d \in {"E", "e"} -> "e"
      [] d \in {"W", "w"} -> "w"
      [] d \in {"North", "north", "NORTH"} -> "north"
      [] d \in {"South", "south", "SOUTH"} -> "south"
      [] d \in {"Northbound", "northbound"} -> "northbound"
      [] d \in {"Southbound", "southbound"} -> "southbound"
      [] d \in {"NB", "nb"} -> "nb"
      [] d \in {"SB", "sb"} -> "sb"
      [] OTHER -> d

\* utils_cta.get_direction_symbol: None for a spelling it does not list
get_direction_symbol(direction) ==
    LET d == LowerDirection(direction)
    IN  IF d \in {"north", "northbound", "north bound", "n"} THEN "N"
        ELSE IF d \in {"south", "southbound", "south bound", "s"} THEN "S"
        ELSE IF d \in {"east", "eastbound", "east bound", "e"} THEN "E"
        ELSE IF d \in {"west", "westbound", "west bound", "w"} THEN "W"
        ELSE "None"

\* utils_cta.translate_bus_dir: the direction word found in stop_desc
translate_bus_dir(row) ==
    IF "northbound" \in row.stop_desc THEN "N"
    ELSE IF "southbound" \in row.stop_desc THEN "S"
    ELSE IF "eastbound" \in row.stop_desc THEN "E"
    ELSE IF "westbound" \in row.stop_desc THEN "W"
    ELSE "None"

\* str.title() of the route names callers use
Title(r) ==
    CASE r \in {"red", "RED", "Red"} -> "Red"
      [] r \in {"blue", "Blue"}      -> "Blue"
      [] r \in {"x9", "X9"}          -> "X9"
      [] OTHER                       -> r

\* cta_route_transfers.csv: which route serves which stop
CTA_ROUTE_TRANSFERS == <<
    [rt |-> "9",    stop_id |-> Str(1)],
    [rt |-> "9",    stop_id |-> Str(2)],
    [rt |-> "Red",  stop_id |-> Str(30001)],
    [rt |-> "Red",  stop_id |-> Str(30002)],
    [rt |-> "Blue", stop_id |-> Str(30003)]
>>

\* cta_train_stations.csv: one row per platform, with its direction
CTA_TRAIN_STATIONS == <<
    [stop_id |-> Str(30001), direction_id |-> "N", map_id |-> Str(40001)],
    [stop_id |-> Str(30002), direction_id |-> "S", map_id |-> Str(40001)],
    [stop_id |-> Str(30003), direction_id |-> "N", map_id |-> Str(40002)]
>>

\* StopSearch.__init__: get_stops() with stop_lat/stop_lon renamed to lat/lon,
\* the map_id (parent_station) column dropped and stop_id cast to int
StopSearch_init(rows) ==
    [i \in 1..Len(rows) |->
        [stop_id   |-> rows[i].stop_id,
         lat       |-> rows[i].stop_lat,
         lon       |-> rows[i].stop_lon,
         stop_desc |-> rows[i].stop_desc]]

\* the orders in which a sort that is not stable can leave two rows of equal
\* key: as they were, or swapped; which one is a property of the installed
\* numpy, the same for every call
TieOrders == {"kept", "reversed"}

\* insert row x behind every row of s whose dist is <= that of x
RECURSIVE InsertByDist(_, _)
InsertByDist(s, x) ==
    IF s = <<>> THEN <<x>>
    ELSE LET last == s[Len(s)]
         IN  IF last.dist <= x.dist THEN Append(s, x)
             ELSE Append(InsertByDist(SubSeq(s, 1, Len(s) - 1), x), last)

\* the first i rows of df in non-decreasing order of dist, ties as in df
RECURSIVE SortedByDist(_, _)
SortedByDist(df, i) ==
    IF i = 0 THEN <<>> ELSE InsertByDist(SortedByDist(df, i - 1), df[i])

\* mutant of sort_values: the order of rows of equal dist changes from one
\* call to the next
sort_values_by_turns(df) ==
    IF result = <<>> THEN SortedByDist(df, Len(df))
    ELSE SortedByDist([i \in 1..Len(df) |-> df[Len(df) + 1 - i]], Len(df))

\* DataFrame.sort_values(by="dist", ascending=True) with the default
\* kind="quicksort", which is not stable: non-decreasing in dist, rows of
\* equal dist in the order the installed sort leaves them in
sort_values(df) ==
    IF sort_ties = "kept" THEN SortedByDist(df, Len(df))
    ELSE SortedByDist(Reverse(df), Len(df))

\* the dist column: get_distance from the origin to every row
WithDist(df, lat, lon) ==
    [i \in 1..Len(df) |->
        [c \in DOMAIN df[i] \cup {"dist"} |->
            IF c = "dist" THEN get_distance(lat, lon, df[i].lat, df[i].lon)
            ELSE df[i][c]]]

\* BusRoute/BusStop.__sort_by_shortest_distance
sort_by_shortest_distance(curr_lat, curr_lon, stop_df) ==
    sort_values(WithDist(stop_df, curr_lat, curr_lon))

\* get_bus_route_stops(route, direction): the stpid, lat and lon the bus API
\* lists for the stops of a route; in the model the bus stops of the feed
get_bus_route_stops(rows) ==
    LET IsBus(r) == r.stop_id < FIRST_TRAIN_ID
        listed == SelectSeq(rows, IsBus)
    IN  [i \in 1..Len(listed) |->
            [stop_id |-> Str(listed[i].stop_id),
             lat     |-> listed[i].stop_lat,
             lon     |-> listed[i].stop_lon]]

\* BusRoute.stops_by_distance(latitude, longitude, limit)
stops_by_distance(route_df, latitude, longitude, limit) ==
    Slice(sort_by_shortest_distance(latitude, longitude, route_df), limit)

\* BusStop.__init__(rt, direction, loc, limit=): the ids of the closest stops
BusStop_init(route_df, loc, limit) ==
    Slice(sort_by_shortest_distance(loc[1], loc[2], route_df), limit)

----------------------------------------------------------------------------
(* What an operation hands back *)

\* a returned list or frame
Returned(rows) == [kind |-> "rows", rows |-> rows, exc |-> "-"]

\* a raised exception
Raised(exc) == [kind |-> "error", rows |-> <<>>, exc |-> exc]

----------------------------------------------------------------------------
(* cta/cta.py: StopSearch.closest_stops *)

\* the stop_type values the final branch of StopSearch.closest_stops compares
SearchStopTypes == {"None", "bus", "train"}

\* the directions argument as a list of spellings: each mapped to its symbol
DirectionSymbols(directions) ==
    IF directions = None THEN None
    ELSE Some({get_direction_symbol(directions[1][i]) : i \in 1..Len(directions[1])})

\* directions as a list of spellings (<<list>>) sets both filters; as a dict
\* (<<bus, train>>, an entry None when the key is missing) each entry sets
\* the filter of its own type
BusDirections(directions) ==
    IF Len(directions) = 2 THEN DirectionSymbols(directions[1])
    ELSE DirectionSymbols(directions)

TrainDirections(directions) ==
    IF Len(directions) = 2 THEN DirectionSymbols(directions[2])
    ELSE DirectionSymbols(directions)

\* limit as one number (<<n>>) or as a list (<<bus, train>>)
BusLimit(limit) == limit[1]
TrainLimit(limit) == IF Len(limit) = 2 THEN limit[2] ELSE limit[1]

IsBusStop(r) == r.stop_id < FIRST_TRAIN_ID

\* Series.between(30000, 39999, 'both')
IsTrainStop(r) == FIRST_TRAIN_ID <= r.stop_id /\ r.stop_id <= FIRST_PARENT_ID - 1

\* the routes branch, else the exclude_stops branch, else the frame as it is
FilterCandidates(df, rtstops, routes, exclude_stops) ==
    IF routes # None
    THEN LET titled == {Title(routes[1][i]) : i \in 1..Len(routes[1])}
             stops_to_filter_by ==
                 {rtstops[i].stop_id : i \in {j \in 1..Len(rtstops) : rtstops[j].rt \in titled}}
             Served(r) == Str(r.stop_id) \in stops_to_filter_by
         IN  SelectSeq(df, Served)
    ELSE IF exclude_stops # None
    THEN LET \* str.title leaves a string of digits as it is
             excluded == Range(exclude_stops[1])
             Kept(r) == Str(r.stop_id) \notin excluded
         IN  SelectSeq(df, Kept)
    ELSE df

\* train_stops_only[train_stops_only["stop_id"] == str(s.stop_id)]
StationRows(stations, stop_id) ==
    {i \in 1..Len(stations) : stations[i].stop_id = Str(stop_id)}

\* Series.item() fails unless exactly one row matches
ItemFails(stations, df) ==
    \E i \in 1..Len(df) : Cardinality(StationRows(stations, df[i].stop_id)) # 1

TrainDir(stations, stop_id) ==
    stations[CHOOSE i \in StationRows(stations, stop_id) : TRUE].direction_id

\* bus_stop_df.apply(lambda s: translate_bus_dir(s), axis=1)
BusDirs(df) ==
    [i \in 1..Len(df) |-> translate_bus_dir(df[i])]

\* train_stop_df.apply(lambda s: ... ["direction_id"].item(), axis=1)
TrainDirs(stations, df) ==
    [i \in 1..Len(df) |-> TrainDir(stations, df[i].stop_id)]

\* the "type" and "dir" columns, then astype('str')
Typed(df, type, dirs) ==
    [i \in 1..Len(df) |->
        [type    |-> type,
         stop_id |-> Str(df[i].stop_id),
         dir     |-> dirs[i],
         lat     |-> Str(df[i].lat),
         lon     |-> Str(df[i].lon),
         dist    |-> Str(df[i].dist)]]

\* df[df["dir"].isin(dirs)] when a direction filter was given
FilterDirs(df, dirs) ==
    IF dirs = None THEN df
    ELSE LET Match(r) == r.dir \in dirs[1]
         IN  SelectSeq(df, Match)

\* mutant of SearchReturn: the train list is put first
SearchReturnTrainFirst(bus_stop_df, train_stop_df, stop_type) ==
    IF Len(train_stop_df) = 0 \/ stop_type = "bus"
    THEN bus_stop_df
    ELSE IF Len(bus_stop_df) = 0 \/ stop_type = "train"
    THEN train_stop_df
    ELSE train_stop_df \o bus_stop_df

\* the value returned from the ranked and truncated frames
SearchReturn(bus_stop_df, train_stop_df, stop_type) ==
    IF Len(train_stop_df) = 0 \/ stop_type = "bus"
    THEN bus_stop_df
    ELSE IF Len(bus_stop_df) = 0 \/ stop_type = "train"
    THEN train_stop_df
    ELSE bus_stop_df \o train_stop_df

\* StopSearch.closest_stops(lat, lon, routes=, directions=, limit=,
\* stop_type=, exclude_stops=)
StopSearch_closest_stops(frame, rtstops, stations, lat, lon, routes, directions, limit, stop_type, exclude_stops) ==
    LET busdirs == BusDirections(directions)
        traindirs == TrainDirections(directions)
        bus0 == FilterCandidates(SelectSeq(frame, IsBusStop), rtstops, routes, exclude_stops)
        train0 == FilterCandidates(SelectSeq(frame, IsTrainStop), rtstops, routes, exclude_stops)
        b == sort_values(WithDist(bus0, lat, lon))
        t == sort_values(WithDist(train0, lat, lon))
    IN  IF Len(bus0) = 0
        THEN \* DataFrame.apply on an empty frame returns a frame, and
             \* insert(2, "dir", frame) raises
             Raised("ValueError")
        ELSE IF ItemFails(stations, train0)
        THEN Raised("ValueError")
        ELSE Returned(SearchReturn(
                 Slice(FilterDirs(Typed(b, "bus", BusDirs(b)), busdirs), BusLimit(limit)),
                 Slice(FilterDirs(Typed(t, "train", TrainDirs(stations, t)), traindirs), TrainLimit(limit)),
                 stop_type))

----------------------------------------------------------------------------
(* The origin of a lookup: positional arguments, or a text to geocode *)

\* a function that returned None
ReturnedNone == [kind |-> "none", rows |-> <<>>, exc |-> "-"]

\* what the geocoding service answers to a text: a list of places, empty when
\* it finds none; lat and lon are the numbers the strings of the answer denote
GeocoderResponses == {<<>>} \cup {<<[lat |-> o[1], lon |-> o[2]]>> : o \in Origins}

\* utils.locate(q=query): the decoded answer of the service
locate(response) == response

\* utils.get_coordinates(query): resp[0] of the answer
get_coordinates(response) ==
    LET resp == locate(response)
    IN  IF Len(resp) = 0 THEN Raised("IndexError")
        ELSE Returned(<<resp[1].lat, resp[1].lon>>)

\* utils.geosearch(q): the places found, each with its point; GeocodeError
\* when the service finds none
geosearch(response) ==
    IF Len(response) = 0 THEN Raised("GeocodeError")
    ELSE Returned([i \in 1..Len(response) |->
                      [point |-> Point(response[i].lat, response[i].lon)]])

\* the ways static.closest_stops is given its origin: one Point, two
\* numbers, none (q= is geocoded), or three positional arguments
StaticOrigins == {"point", "two", "q", "three"}

\* static.closest_stops(*args, q=, number=, stop_type=, ...)
closest_stops_args(origin, point, response, table, number, stop_type, child_stops_only, parent_stops_only, group_child_stops) ==
    IF origin \in {"point", "two"}
    THEN Returned(closest_stops(table, point[1], point[2], number, stop_type,
                                child_stops_only, parent_stops_only, group_child_stops))
    ELSE IF origin = "q"
    THEN LET locs == geosearch(response)
         IN  IF locs.kind = "error" THEN locs
             ELSE Returned(closest_stops(table, locs.rows[1].point[1], locs.rows[1].point[2],
                                         number, stop_type, child_stops_only,
                                         parent_stops_only, group_child_stops))
    ELSE \* no branch binds point: the sort key fails on the first row it is
         \* called for, and is not called when there is no row
         IF Len(ctadb_stops(table, stop_type)) = 0 THEN Returned(<<>>)
         ELSE Raised("NameError")

\* the ways StopSearch.closest_stops is given its origin: one list or tuple,
\* one "lat,lon" string, two arguments, none, or three
SearchOrigins == {"pair", "string", "two", "none", "three"}

\* StopSearch.closest_stops(*args, routes=, directions=, limit=, ...)
StopSearch_closest_stops_args(origin, frame, rtstops, stations, lat, lon, routes, directions, limit, stop_type, exclude_stops) ==
    IF origin \in {"pair", "two"}
    THEN StopSearch_closest_stops(frame, rtstops, stations, lat, lon, routes,
                                  directions, limit, stop_type, exclude_stops)
    ELSE IF origin = "string"
    THEN \* `type(args) is str` tests the tuple of arguments: never true
         ReturnedNone
    ELSE \* a message is printed and lat, lon stay unbound: the first row
         \* whose distance is computed fails; with no row at all the empty
         \* bus frame fails as it does for any origin
         IF /\ Len(FilterCandidates(SelectSeq(frame, IsBusStop), rtstops, routes, exclude_stops)) = 0
            /\ Len(FilterCandidates(SelectSeq(frame, IsTrainStop), rtstops, routes, exclude_stops)) = 0
         THEN Raised("ValueError")
         ELSE Raised("UnboundLocalError")

\* BusStop(rt, direction, "text", limit=): the text is geocoded first
BusStop_init_query(route_df, response, limit) ==
    LET coords == get_coordinates(response)
    IN  IF coords.kind = "error" THEN coords
        ELSE Returned(BusStop_init(route_df, coords.rows, limit))

----------------------------------------------------------------------------
(* Initial state: a feed has been downloaded and loaded into the store *)

Init ==
    /\ feed \in Feeds
    /\ stops = update_static_db(feed)
    /\ cta_stops = StopSearch_init(feed)
    /\ route_stops = CTA_ROUTE_TRANSFERS
    /\ train_stops = CTA_TRAIN_STATIONS
    /\ op = "none"
    /\ args = None
    /\ result = None
    /\ sort_ties \in TieOrders
    /\ prev = None
    /\ published = [stops |-> 1, route_transfers |-> 1, train_stations |-> 1]
    /\ held = [cta_stops |-> 1, route_stops |-> 1, train_stops |-> 1]
    /\ job = "idle"
    /\ gtfs = [upstream |-> 1, updated |-> 1, stops |-> 1, stop_times |-> 1,
               bus_stop_times |-> 1, train_stop_times |-> 1]
    /\ db = [table |-> "cast", incoming |-> 1]
    /\ run = [force_update |-> FALSE, last_time_downloaded |-> 1, timestamp |-> 1,
              zip |-> 1, df |-> 1, downloaded |-> FALSE, outcome |-> "none",
              before |-> <<feed, gtfs>>]

\* the library is synchronous: a lookup starts when no other is being served
Idle == op = "none"

\* ctadb.stops(stop_type=t)
CTAdbStops ==
    \E t \in StopTypes :
        /\ Idle
        /\ op' = "CTAdb.stops"
        /\ args' = [stop_type |-> t]
        /\ result' = Returned(ctadb_stops(stops, t))
        /\ UNCHANGED <<store, env>>

\* static.closest_stops(lat, lon, number=n, stop_type=t, ...)
StaticClosestStops ==
    \E point \in Origins, n \in Limits, t \in StopTypes,
       c \in BOOLEAN, p \in BOOLEAN, g \in BOOLEAN :
        /\ Idle
        /\ op' = "static.closest_stops"
        /\ args' = [point |-> point, number |-> n, stop_type |-> t,
                    child_stops_only |-> c, parent_stops_only |-> p,
                    group_child_stops |-> g]
        /\ result' = Returned(closest_stops(stops, point[1], point[2], n, t, c, p, g))
        /\ UNCHANGED <<store, env>>

\* the filters a StopSearch caller combines
RouteFilters == {None, Some(<<"red">>), Some(<<"9">>)}
ExcludeFilters == {None, Some(<<Str(1), Str(30002)>>)}
DirectionFilters == {None, Some(<<"N">>)}

\* limit=n, and limit=[bus, train] with two different numbers
LimitArgs ==
    {<<n>> : n \in Limits} \cup {bt \in Limits \X Limits : bt[1] # bt[2]}

\* StopSearch().closest_stops(lat, lon, routes=, directions=, limit=, ...)
SearchClosestStops ==
    \E point \in Origins, l \in LimitArgs, t \in SearchStopTypes,
       r \in RouteFilters, x \in ExcludeFilters, d \in DirectionFilters :
        /\ Idle
        /\ op' = "StopSearch.closest_stops"
        /\ args' = [point |-> point, limit |-> l, stop_type |-> t,
                    routes |-> r, exclude_stops |-> x, directions |-> d]
        /\ result' = StopSearch_closest_stops(cta_stops, route_stops, train_stops,
                          point[1], point[2], r, d, l, t, x)
        /\ UNCHANGED <<store, env>>

\* BusRoute(rt, direction).stops_by_distance(lat, lon, limit=n)
BusRouteStopsByDistance ==
    \E point \in Origins, n \in Limits :
        /\ Idle
        /\ op' = "BusRoute.stops_by_distance"
        /\ args' = [point |-> point, limit |-> n]
        /\ result' = Returned(stops_by_distance(get_bus_route_stops(feed),
                                                point[1], point[2], n))
        /\ UNCHANGED <<store, env>>

\* BusStop(rt, direction, (lat, lon), limit=n)
BusStopInit ==
    \E point \in Origins, n \in Limits :
        /\ Idle
        /\ op' = "BusStop"
        /\ args' = [point |-> point, limit |-> n]
        /\ result' = Returned(BusStop_init(get_bus_route_stops(feed), point, n))
        /\ UNCHANGED <<store, env>>

\* the caller takes the returned value; the store is as it was
Return ==
    /\ ~Idle
    /\ result # None
    /\ op' = "none"
    /\ args' = None
    /\ result' = None
    /\ prev' = None
    /\ UNCHANGED <<store, sort_ties, published, held, job, gtfs, db, run>>

Next ==
    \/ CTAdbStops
    \/ StaticClosestStops
    \/ SearchClosestStops
    \/ BusRouteStopsByDistance
    \/ BusStopInit
    \/ Return

Spec == Init /\ [][Next]_vars

\* the lookups of cta/static.py alone
NextStatic ==
    \/ CTAdbStops
    \/ StaticClosestStops
    \/ Return

SpecStatic == Init /\ [][NextStatic]_vars

\* the lookups of the pandas-based classes of cta/cta.py alone
NextSearch ==
    \/ SearchClosestStops
    \/ BusRouteStopsByDistance
    \/ BusStopInit
    \/ Return

SpecSearch == Init /\ [][NextSearch]_vars

----------------------------------------------------------------------------
(* Lookups by the way their origin is given *)

\* static.closest_stops(point), (lat, lon), (q="text") and (a, b, c)
StaticClosestStopsOrigin ==
    \E o \in StaticOrigins, point \in Origins, response \in GeocoderResponses,
       n \in Limits, t \in StopTypes :
        /\ Idle
        /\ o = "q" => point = IF response = <<>> THEN <<0, 0>>
                              ELSE <<response[1].lat, response[1].lon>>
        /\ o # "q" => response = <<>>
        /\ op' = "static.closest_stops"
        /\ args' = [origin |-> o, point |-> point, response |-> response,
                    number |-> n, stop_type |-> t, child_stops_only |-> FALSE,
                    parent_stops_only |-> FALSE, group_child_stops |-> FALSE]
        /\ result' = closest_stops_args(o, point, response, stops, n, t, FALSE, FALSE, FALSE)
        /\ UNCHANGED <<store, env>>

\* StopSearch().closest_stops((lat, lon)), ("lat,lon"), (lat, lon), () and
\* (a, b, c)
SearchClosestStopsOrigin ==
    \E o \in SearchOrigins, point \in Origins, n \in Limits, t \in SearchStopTypes :
        /\ Idle
        /\ op' = "StopSearch.closest_stops"
        /\ args' = [origin |-> o, point |-> point, limit |-> <<n>>, stop_type |-> t,
                    routes |-> None, exclude_stops |-> None, directions |-> None]
        /\ result' = StopSearch_closest_stops_args(o, cta_stops, route_stops, train_stops,
                          point[1], point[2], None, None, <<n>>, t, None)
        /\ UNCHANGED <<store, env>>

\* BusStop(rt, direction, "text", limit=n)
BusStopByQuery ==
    \E response \in GeocoderResponses, n \in Limits :
        /\ Idle
        /\ op' = "BusStop"
        /\ args' = [origin |-> "q", response |-> response, limit |-> n,
                    point |-> IF response = <<>> THEN <<0, 0>>
                              ELSE <<response[1].lat, response[1].lon>>]
        /\ result' = BusStop_init_query(get_bus_route_stops(feed), response, n)
        /\ UNCHANGED <<store, env>>

NextOrigin ==
    \/ StaticClosestStopsOrigin
    \/ SearchClosestStopsOrigin
    \/ BusStopByQuery
    \/ Return

SpecOrigin == Init /\ [][NextOrigin]_vars

----------------------------------------------------------------------------
(* A call made twice *)

\* the value operation o returns for the keyword arguments a
Invoke(o, a) ==
    IF o = "static.closest_stops"
    THEN Returned(closest_stops(stops, a.point[1], a.point[2], a.number, a.stop_type,
                                a.child_stops_only, a.parent_stops_only,
                                a.group_child_stops))
    ELSE StopSearch_closest_stops(cta_stops, route_stops, train_stops,
                                  a.point[1], a.point[2], a.routes, a.directions,
                                  a.limit, a.stop_type, a.exclude_stops)

\* the caller makes the call it just made once more, with the same arguments
Repeat ==
    /\ op \in {"static.closest_stops", "StopSearch.closest_stops"}
    /\ prev = None
    /\ prev' = [op |-> op, args |-> args, result |-> result]
    /\ result' = Invoke(op, args)
    /\ UNCHANGED <<store, op, args, sort_ties, published, held, job, gtfs, db, run>>

\* the whole feed is installed, in file order or in reverse order
InitRepeat == Init /\ Len(feed) = Len(GTFS_STOPS)

NextRepeat ==
    \/ StaticClosestStops
    \/ SearchClosestStops
    \/ Repeat
    \/ Return

SpecRepeat == InitRepeat /\ [][NextRepeat]_vars

----------------------------------------------------------------------------
(* The refresh job and the construction of a StopSearch object.  update_all *)
(* rewrites cta_train_stations.csv, cta_route_transfers.csv and the GTFS    *)
(* files one after the other; StopSearch.__init__ reads stops.txt,          *)
(* cta_route_transfers.csv and cta_train_stations.csv one after the other.  *)
(* The job runs on its own: its steps fall anywhere between those of the    *)
(* program.  A version number stands for what a run of the job publishes.   *)

\* update_all, step update_train_stations(): a new cta_train_stations.csv
UpdateTrainStations ==
    /\ job = "idle"
    /\ published.train_stations < MaxVersion
    /\ published' = [published EXCEPT !.train_stations = @ + 1]
    /\ job' = "update_route_transfers"
    /\ UNCHANGED <<store, op, args, result, sort_ties, prev, held, gtfs, db, run>>

\* update_all, step update_route_transfers(): a new cta_route_transfers.csv
UpdateRouteTransfers ==
    /\ job = "update_route_transfers"
    /\ published' = [published EXCEPT !.route_transfers = @ + 1]
    /\ job' = "update_static_feed"
    /\ UNCHANGED <<store, op, args, result, sort_ties, prev, held, gtfs, db, run>>

\* update_all, step update_static_feed(True): the archive is extracted over
\* cta_google_transit/; the new stops.txt lists the stops in either order
UpdateStaticFeed ==
    /\ job = "update_static_feed"
    /\ feed' \in {feed, Reverse(feed)}
    /\ published' = [published EXCEPT !.stops = @ + 1]
    /\ job' = "idle"
    /\ UNCHANGED <<stops, cta_stops, route_stops, train_stops, op, args, result,
                   sort_ties, prev, held, gtfs, db, run>>

\* StopSearch(), first statement: get_stops() into __cta_stops
StopSearchInitStops ==
    /\ Idle
    /\ op' = "StopSearch.__init__"
    /\ args' = [loaded |-> 1]
    /\ cta_stops' = StopSearch_init(feed)
    /\ held' = [held EXCEPT !.cta_stops = published.stops]
    /\ UNCHANGED <<feed, stops, route_stops, train_stops, result, sort_ties, prev,
                   published, job, gtfs, db, run>>

\* StopSearch(), second statement: get_route_transfers() into __route_stops
StopSearchInitRouteStops ==
    /\ op = "StopSearch.__init__"
    /\ args.loaded = 1
    /\ args' = [loaded |-> 2]
    /\ route_stops' = CTA_ROUTE_TRANSFERS
    /\ held' = [held EXCEPT !.route_stops = published.route_transfers]
    /\ UNCHANGED <<feed, stops, cta_stops, train_stops, op, result, sort_ties, prev,
                   published, job, gtfs, db, run>>

\* StopSearch(), third statement: get_train_stations() into __train_stops;
\* the object is constructed
StopSearchInitTrainStops ==
    /\ op = "StopSearch.__init__"
    /\ args.loaded = 2
    /\ op' = "none"
    /\ args' = None
    /\ train_stops' = CTA_TRAIN_STATIONS
    /\ held' = [held EXCEPT !.train_stops = published.train_stations]
    /\ UNCHANGED <<feed, stops, cta_stops, route_stops, result, sort_ties, prev,
                   published, job, gtfs, db, run>>

\* the whole feed is installed, in file order
InitRefresh == Init /\ feed = GTFS_STOPS

NextRefresh ==
    \/ UpdateTrainStations
    \/ UpdateRouteTransfers
    \/ UpdateStaticFeed
    \/ StopSearchInitStops
    \/ StopSearchInitRouteStops
    \/ StopSearchInitTrainStops
    \/ SearchClosestStops
    \/ Return

SpecRefresh == InitRefresh /\ [][NextRefresh]_vars

----------------------------------------------------------------------------
(* Direction filters in every form a caller writes them *)

\* directions= as a list of spellings, for both types, or as a dict with a
\* list under "bus", under "train" or under both; "NB" is a spelling
\* get_direction_symbol does not know
DirectionArgs ==
    {Some(<<"N">>), Some(<<"NB">>), Some(<<"southbound", "N">>),
     <<Some(<<"N">>), None>>, <<None, Some(<<"N">>)>>, <<None, Some(<<"W">>)>>,
     <<Some(<<"NB">>), Some(<<"S">>)>>}

\* StopSearch().closest_stops(lat, lon, directions=, limit=, stop_type=)
SearchClosestStopsDirections ==
    \E point \in Origins, l \in LimitArgs, t \in SearchStopTypes, d \in DirectionArgs :
        /\ Idle
        /\ op' = "StopSearch.closest_stops"
        /\ args' = [point |-> point, limit |-> l, stop_type |-> t,
                    routes |-> None, exclude_stops |-> None, directions |-> d]
        /\ result' = StopSearch_closest_stops(cta_stops, route_stops, train_stops,
                          point[1], point[2], None, d, l, t, None)
        /\ UNCHANGED <<store, env>>

NextDirections ==
    \/ SearchClosestStopsDirections
    \/ Return

SpecDirections == Init /\ [][NextDirections]_vars

----------------------------------------------------------------------------
(* The distance function on its own *)

\* a returned number
ReturnedFloat(x) == [kind |-> "float", value |-> x]

\* the points of the grid
GridPoints == (0..MaxLat) \X (0..MaxLat)

\* utils.get_distance(a.lat, a.lon, b.lat, b.lon)
GetDistance ==
    \E a \in GridPoints, b \in GridPoints :
        /\ Idle
        /\ op' = "get_distance"
        /\ args' = [a |-> a, b |-> b]
        /\ result' = ReturnedFloat(get_distance(a[1], a[2], b[1], b[2]))
        /\ UNCHANGED <<store, env>>

NextDistance ==
    \/ GetDistance
    \/ Return

SpecDistance == InitRefresh /\ [][NextDistance]_vars

----------------------------------------------------------------------------
(* The refresh of the stop data, step by step.  update_static_db("stops")   *)
(* rebuilds the stops table of the sqlite store from the upstream archive;  *)
(* update_static_feed extracts the archive over cta_google_transit/ and     *)
(* derives the two stop_times files.  Neither takes a lock: a reader's      *)
(* query or file read falls between any two of their steps.                 *)

\* the stops.txt of version v of the upstream archive
FeedOf(v) == IF v % 2 = 1 THEN GTFS_STOPS ELSE Reverse(GTFS_STOPS)

\* the CTA publishes a new archive
Publish ==
    /\ gtfs.upstream < MaxVersion
    /\ gtfs' = [gtfs EXCEPT !.upstream = @ + 1]
    /\ UNCHANGED <<store, op, args, result, sort_ties, prev, published, held, job,
                   db, run>>

\* executemany("INSERT INTO stops VALUES (...)", reader): every csv field is
\* stored as the text it is
insert_rows(rows) ==
    [i \in 1..Len(rows) |->
        [stop_id        |-> Str(rows[i].stop_id),
         stop_lat       |-> Str(rows[i].stop_lat),
         stop_lon       |-> Str(rows[i].stop_lon),
         parent_station |-> rows[i].parent_station,
         stop_desc      |-> rows[i].stop_desc]]

\* update_static_db("stops"): the archive is fetched, DROP TABLE IF EXISTS
DbDropTable ==
    /\ job = "idle"
    /\ job' = "db_create"
    /\ db' = [table |-> "missing", incoming |-> gtfs.upstream]
    /\ stops' = <<>>
    /\ UNCHANGED <<feed, cta_stops, route_stops, train_stops, op, args, result,
                   sort_ties, prev, published, held, gtfs, run>>

\* CREATE TABLE IF NOT EXISTS stops (...)
DbCreateTable ==
    /\ job = "db_create"
    /\ job' = "db_insert"
    /\ db' = [db EXCEPT !.table = "empty"]
    /\ UNCHANGED <<store, op, args, result, sort_ties, prev, published, held, gtfs, run>>

\* executemany(INSERT ...), committed when executescript starts
DbInsert ==
    /\ job = "db_insert"
    /\ job' = "db_copy"
    /\ db' = [db EXCEPT !.table = "text"]
    /\ stops' = insert_rows(FeedOf(db.incoming))
    /\ UNCHANGED <<feed, cta_stops, route_stops, train_stops, op, args, result,
                   sort_ties, prev, published, held, gtfs, run>>

\* CREATE TABLE stops_temp AS SELECT ... FROM stops; DROP TABLE stops
DbCopyAndDrop ==
    /\ job = "db_copy"
    /\ job' = "db_rename"
    /\ db' = [db EXCEPT !.table = "missing"]
    /\ stops' = <<>>
    /\ UNCHANGED <<feed, cta_stops, route_stops, train_stops, op, args, result,
                   sort_ties, prev, published, held, gtfs, run>>

\* ALTER TABLE stops_temp RENAME TO stops
DbRename ==
    /\ job = "db_rename"
    /\ job' = "db_cast"
    /\ db' = [db EXCEPT !.table = "text"]
    /\ stops' = insert_rows(FeedOf(db.incoming))
    /\ UNCHANGED <<feed, cta_stops, route_stops, train_stops, op, args, result,
                   sort_ties, prev, published, held, gtfs, run>>

\* UPDATE stops SET stop_id = CAST(stop_id as INTEGER), ...
DbCast ==
    /\ job = "db_cast"
    /\ job' = "idle"
    /\ db' = [db EXCEPT !.table = "cast"]
    /\ stops' = update_static_db(FeedOf(db.incoming))
    /\ UNCHANGED <<feed, cta_stops, route_stops, train_stops, op, args, result,
                   sort_ties, prev, published, held, gtfs, run>>

\* mutant of needs_download: force_update is ignored
needs_download_ignoring_force(last_time_downloaded, timestamp, force_update) ==
    last_time_downloaded # timestamp

\* the test that decides whether the archive is downloaded
needs_download(last_time_downloaded, timestamp, force_update) ==
    last_time_downloaded # timestamp \/ force_update

\* update_static_feed(force_update): updated.txt and the publish timestamp
\* of the upstream listing are read and compared
FeedStart ==
    \E force_update \in BOOLEAN :
        /\ job = "idle"
        /\ run' = [force_update |-> force_update,
                   last_time_downloaded |-> gtfs.updated,
                   timestamp |-> gtfs.upstream,
                   zip |-> 0, df |-> 0, downloaded |-> FALSE,
                   outcome |-> IF needs_download(gtfs.updated, gtfs.upstream, force_update)
                               THEN "running" ELSE "done",
                   before |-> <<feed, gtfs>>]
        /\ job' = IF needs_download(gtfs.updated, gtfs.upstream, force_update)
                  THEN "feed_download" ELSE "idle"
        /\ UNCHANGED <<store, op, args, result, sort_ties, prev, published, held,
                       gtfs, db>>

\* sesh.get(url): the archive as it is upstream at this moment
FeedDownload ==
    /\ job = "feed_download"
    /\ job' = "feed_extract_stops"
    /\ run' = [run EXCEPT !.zip = gtfs.upstream, !.downloaded = TRUE]
    /\ UNCHANGED <<store, op, args, result, sort_ties, prev, published, held, gtfs, db>>

\* z.extractall: stops.txt is opened for writing, which empties it
FeedExtractOpen ==
    /\ job = "feed_extract_stops"
    /\ job' = "feed_write_stops"
    /\ feed' = <<>>
    /\ gtfs' = [gtfs EXCEPT !.stops = 0]
    /\ UNCHANGED <<stops, cta_stops, route_stops, train_stops, op, args, result,
                   sort_ties, prev, published, held, db, run>>

\* the first block of stops.txt is written
FeedExtractBlock ==
    /\ job = "feed_write_stops"
    /\ job' = "feed_finish_stops"
    /\ feed' = Slice(FeedOf(run.zip), Len(FeedOf(run.zip)) \div 2)
    /\ UNCHANGED <<stops, cta_stops, route_stops, train_stops, op, args, result,
                   sort_ties, prev, published, held, gtfs, db, run>>

\* the rest of stops.txt is written
FeedExtractStops ==
    /\ job = "feed_finish_stops"
    /\ job' = "feed_extract_stop_times"
    /\ feed' = FeedOf(run.zip)
    /\ gtfs' = [gtfs EXCEPT !.stops = run.zip]
    /\ UNCHANGED <<stops, cta_stops, route_stops, train_stops, op, args, result,
                   sort_ties, prev, published, held, db, run>>

\* stop_times.txt is written
FeedExtractStopTimes ==
    /\ job = "feed_extract_stop_times"
    /\ job' = "feed_write_timestamp"
    /\ gtfs' = [gtfs EXCEPT !.stop_times = run.zip]
    /\ UNCHANGED <<store, op, args, result, sort_ties, prev, published, held, db, run>>

\* updated.txt is rewritten with the timestamp read at the start
FeedWriteTimestamp ==
    /\ job = "feed_write_timestamp"
    /\ job' = "feed_split_bus"
    /\ gtfs' = [gtfs EXCEPT !.updated = run.timestamp]
    /\ UNCHANGED <<store, op, args, result, sort_ties, prev, published, held, db, run>>

\* get_stop_times() is read and its bus rows written to bus_stop_times.csv
FeedSplitBus ==
    /\ job = "feed_split_bus"
    /\ job' = "feed_split_train"
    /\ gtfs' = [gtfs EXCEPT !.bus_stop_times = gtfs.stop_times]
    /\ run' = [run EXCEPT !.df = gtfs.stop_times]
    /\ UNCHANGED <<store, op, args, result, sort_ties, prev, published, held, db>>

\* its train rows are written to train_stop_times.csv; the call returns
FeedSplitTrain ==
    /\ job = "feed_split_train"
    /\ job' = "idle"
    /\ gtfs' = [gtfs EXCEPT !.train_stop_times = run.df]
    /\ run' = [run EXCEPT !.outcome = "done"]
    /\ UNCHANGED <<store, op, args, result, sort_ties, prev, published, held, db>>

\* the steps of update_static_feed that can raise: the download, the
\* extraction of a file, the write of updated.txt, the split
FeedSteps ==
    {"feed_download", "feed_extract_stops", "feed_write_stops", "feed_finish_stops",
     "feed_extract_stop_times", "feed_write_timestamp", "feed_split_bus",
     "feed_split_train"}

\* the step raises (network, disk, a damaged archive): the call ends there
FeedFail ==
    /\ job \in FeedSteps
    /\ job' = "idle"
    /\ run' = [run EXCEPT !.outcome = "failed"]
    /\ UNCHANGED <<store, op, args, result, sort_ties, prev, published, held, gtfs, db>>

\* ctadb.stops() while the table is being rebuilt
CTAdbStopsAll ==
    /\ Idle
    /\ op' = "CTAdb.stops"
    /\ args' = [stop_type |-> "None"]
    /\ result' = IF db.table = "missing" THEN Raised("OperationalError")
                 ELSE Returned(stops)
    /\ UNCHANGED <<store, env>>

\* get_stops(): pd.read_csv of stops.txt as it is on disk
GetStops ==
    /\ Idle
    /\ op' = "get_stops"
    /\ args' = None
    /\ result' = IF gtfs.stops = 0 /\ feed = <<>> THEN Raised("EmptyDataError")
                 ELSE Returned(feed)
    /\ UNCHANGED <<store, env>>

NextFeed ==
    \/ Publish
    \/ DbDropTable
    \/ DbCreateTable
    \/ DbInsert
    \/ DbCopyAndDrop
    \/ DbRename
    \/ DbCast
    \/ FeedStart
    \/ FeedDownload
    \/ FeedExtractOpen
    \/ FeedExtractBlock
    \/ FeedExtractStops
    \/ FeedExtractStopTimes
    \/ FeedWriteTimestamp
    \/ FeedSplitBus
    \/ FeedSplitTrain
    \/ FeedFail
    \/ CTAdbStopsAll
    \/ GetStops
    \/ Return

SpecFeed == InitRefresh /\ [][NextFeed]_vars

----------------------------------------------------------------------------
(* cta/static.py: CTAdb.L_stops *)

\* the stops table of the train database, as update_L_stops fills it
L_STOPS ==
    <<[stop_id |-> 30001, direction_id |-> "N", parent_station |-> 40001],
      [stop_id |-> 30002, direction_id |-> "S", parent_station |-> 40001],
      [stop_id |-> 30003, direction_id |-> "N", parent_station |-> 40002]>>

\* CTAdb.__validate_direction_id(_dir, /): the code of a denotation, None for
\* any other text
validate_direction_id(dir) ==
    LET d == LowerDirection(dir)
    IN  IF d \in {"n", "north", "northbound", "nb"} THEN "N"
        ELSE IF d \in {"s", "south", "southbound", "sb"} THEN "S"
        ELSE IF d \in {"e", "east", "eastbound", "eb"} THEN "E"
        ELSE IF d \in {"w", "west", "westbound", "wb"} THEN "W"
        ELSE "None"

\* CTAdb.L_stops(direction_id=): __validate_direction_id is defined without
\* self and called as self.__validate_direction_id(direction_id), one
\* positional argument too many
L_stops(table, direction_id) ==
    IF direction_id = None
    THEN Returned(table)
    ELSE Raised("TypeError")

\* the denotations of a direction the documentation of L_stops names
DirectionDenotations ==
    {"N", "n", "North", "NORTH", "Northbound", "NB", "nb",
     "S", "South", "Southbound", "SB", "E", "W"}

\* ctadb.L_stops(direction_id=d), and ctadb.L_stops()
CTAdbLStops ==
    \E d \in {None} \cup {Some(x) : x \in DirectionDenotations} :
        /\ Idle
        /\ op' = "CTAdb.L_stops"
        /\ args' = [direction_id |-> d]
        /\ result' = L_stops(L_STOPS, d)
        /\ UNCHANGED <<store, env>>

NextLStops ==
    \/ CTAdbLStops
    \/ Return

SpecLStops == Init /\ [][NextLStops]_vars

----------------------------------------------------------------------------
(* Derived attributes of a stop: cta/static.py save_stop_transfers and      *)
(* helpers.py add_supplementary_keys                                        *)

\* constants.DIRECTIONS.get(direction_id, "")
DIRECTIONS(direction_id) ==
    CASE direction_id = "N" -> "Northbound"
      [] direction_id = "S" -> "Southbound"
      [] direction_id = "E" -> "Eastbound"
      [] direction_id = "W" -> "Westbound"
      [] OTHER -> ""

\* the flags save_stop_transfers adds to a row of the transfers file
stop_transfer_flags(stop_id) ==
    [stop_id           |-> stop_id,
     is_train_station  |-> stop_id >= 30000,
     is_parent_station |-> stop_id >= 40000]

\* insert row x behind every row of s whose stop_id is <= that of x
RECURSIVE InsertByStopId(_, _)
InsertByStopId(s, x) ==
    IF s = <<>> THEN <<x>>
    ELSE LET last == s[Len(s)]
         IN  IF last.stop_id <= x.stop_id THEN Append(s, x)
             ELSE Append(InsertByStopId(SubSeq(s, 1, Len(s) - 1), x), last)

\* data.sort(key=lambda x: x["stop_id"])
RECURSIVE SortedByStopId(_, _)
SortedByStopId(data, i) ==
    IF i = 0 THEN <<>> ELSE InsertByStopId(SortedByStopId(data, i - 1), data[i])

\* save_stop_transfers(): the rows it writes to the STOP_XFERS table, for the
\* stop ids of the transfers file
save_stop_transfers(ids) ==
    SortedByStopId([i \in 1..Len(ids) |-> stop_transfer_flags(ids[i])], Len(ids))

\* the row of stop_id in the stops table of the train database, if any
TrainStopData(table, stop_id) ==
    {table[i] : i \in {j \in 1..Len(table) : table[j].stop_id = stop_id}}

\* mutant of supplementary_keys: every train stop is marked as a parent
supplementary_keys_all_parents(s, table) ==
    [stop_id      |-> s.stop_id,
     stop_desc    |-> s.stop_desc,
     is_parent    |-> s.stop_id >= 30000,
     stop_type    |-> IF s.stop_id >= 30000 THEN "train" ELSE "bus",
     direction_id |-> "-",
     direction    |-> "-"]

\* the body of the loop of add_supplementary_keys for stop s; a key that is
\* not set is "-"; a train stop without a row in the train database stops
\* the loop after is_parent and stop_type are set
supplementary_keys(s, table) ==
    IF s.stop_id >= 30000
    THEN LET found == TrainStopData(table, s.stop_id)
             train_stop_data == CHOOSE r \in found : TRUE
         IN  [stop_id      |-> s.stop_id,
              stop_desc    |-> s.stop_desc,
              is_parent    |-> s.stop_id >= 40000,
              stop_type    |-> "train",
              direction_id |-> IF found = {} THEN "-" ELSE train_stop_data.direction_id,
              direction    |-> IF found = {} THEN "-"
                               ELSE DIRECTIONS(train_stop_data.direction_id)]
    ELSE [stop_id      |-> s.stop_id,
          stop_desc    |-> s.stop_desc,
          is_parent    |-> FALSE,
          stop_type    |-> "bus",
          direction_id |-> IF "northbound" \in s.stop_desc THEN "N"
                           ELSE IF "southbound" \in s.stop_desc THEN "S"
                           ELSE IF "eastbound" \in s.stop_desc THEN "E"
                           ELSE IF "westbound" \in s.stop_desc THEN "N"
                           ELSE "-",
          direction    |-> IF "northbound" \in s.stop_desc THEN "Northbound"
                           ELSE IF "southbound" \in s.stop_desc THEN "Southbound"
                           ELSE IF "eastbound" \in s.stop_desc THEN "Eastbound"
                           ELSE IF "westbound" \in s.stop_desc THEN "Westbound"
                           ELSE "-"]

\* the stops of a list for which the train database has no row
Unlisted(stoplist, table) ==
    {i \in 1..Len(stoplist) :
        stoplist[i].stop_id >= 30000 /\ TrainStopData(table, stoplist[i].stop_id) = {}}

\* add_supplementary_keys(stoplist): the dicts are changed in place, one
\* after the other; fetchone() gives None for a stop the train database does
\* not list, and subscripting it raises: the dicts reached so far stay changed
add_supplementary_keys(stoplist, table) ==
    LET missing == Unlisted(stoplist, table)
        first == CHOOSE i \in missing : \A j \in missing : i <= j
    IN  IF missing = {}
        THEN Returned([i \in 1..Len(stoplist) |-> supplementary_keys(stoplist[i], table)])
        ELSE [kind |-> "error",
              rows |-> [i \in 1..first |-> supplementary_keys(stoplist[i], table)],
              exc  |-> "TypeError"]

\* descriptions of bus stops: the direction words they contain
StopDescs == {{}, {"northbound"}, {"southbound"}, {"eastbound"}, {"westbound"}}

\* stops as closest_stops returns them: bus stops 1 and 2 with either
\* description, the platforms and the parent stations of the feed
SampleStops ==
    {[stop_id |-> id, stop_desc |-> d] : id \in {1, 2}, d \in StopDescs}
    \cup {[stop_id |-> id, stop_desc |-> {}] : id \in {30001, 30002, 40001}}

\* lists of one or two stops
StopLists == {<<s>> : s \in SampleStops} \cup {<<s, t>> : s \in SampleStops, t \in SampleStops}

\* add_supplementary_keys(stoplist)
AddSupplementaryKeys ==
    \E stoplist \in StopLists :
        /\ Idle
        /\ op' = "add_supplementary_keys"
        /\ args' = [stoplist |-> stoplist]
        /\ result' = add_supplementary_keys(stoplist, L_STOPS)
        /\ UNCHANGED <<store, env>>

\* the stop ids the transfers file lists, in file order
TransferIds ==
    {<<a, b, c>> : a \in {1, 30001, 40001}, b \in {2, 30002, 40001}, c \in {1, 29999, 30000, 39999, 40000}}

\* save_stop_transfers(); the rows written to STOP_XFERS are kept as result
SaveStopTransfers ==
    \E ids \in TransferIds :
        /\ Idle
        /\ op' = "save_stop_transfers"
        /\ args' = [ids |-> ids]
        /\ result' = Returned(save_stop_transfers(ids))
        /\ UNCHANGED <<store, env>>

NextKeys ==
    \/ AddSupplementaryKeys
    \/ SaveStopTransfers
    \/ Return

SpecKeys == InitRefresh /\ [][NextKeys]_vars

----------------------------------------------------------------------------
(* Spellings of the train stop type *)

\* the values CTAdb.stops takes for the train type: the member of the enum
\* StopType, its value, and its value in lower case
TrainSpellings == {"StopType.TRAIN", "Train", "train"}

\* static.closest_stops(lat, lon, number=n, stop_type=<a train spelling>, ...)
StaticClosestStopsSpelled ==
    \E point \in Origins, n \in Limits, t \in TrainSpellings,
       c \in BOOLEAN, p \in BOOLEAN, g \in BOOLEAN :
        /\ Idle
        /\ op' = "static.closest_stops"
        /\ args' = [point |-> point, number |-> n, stop_type |-> t,
                    child_stops_only |-> c, parent_stops_only |-> p,
                    group_child_stops |-> g]
        /\ result' = Returned(closest_stops(stops, point[1], point[2], n, t, c, p, g))
        /\ UNCHANGED <<store, env>>

NextSpelled ==
    \/ StaticClosestStopsSpelled
    \/ Return

SpecSpelled == Init /\ [][NextSpelled]_vars

----------------------------------------------------------------------------
(* cta/fetch.py: fetch_all *)

\* the URLs callers ask for
Urls == {"getdirections?rt=9", "getdirections?rt=X9"}

\* the lists of at most MaxUrls URLs, the same URL twice included
UrlLists == UNION {[1..n -> Urls] : n \in 0..MaxUrls}

\* the argument of fetch_all: a list of URLs, or one URL that is not in a list
FetchArgs ==
    {[is_list |-> TRUE, items |-> l] : l \in UrlLists}
    \cup {[is_list |-> FALSE, items |-> <<u>>] : u \in Urls}

\* the httpx.Response of a request
Response(url) == [url |-> url]

\* fetch_all(_itemlist): a value that is not a list is put in a list; in
\* _fetch_all, _itemlist[0] of an empty list raises; otherwise one task per
\* URL is created, in list order, and the requests are in flight
FetchAllStart ==
    \E a \in FetchArgs :
        /\ Idle
        /\ op' = "fetch_all"
        /\ args' = [is_list |-> a.is_list, items |-> a.items, completed |-> <<>>]
        /\ result' = IF Len(a.items) = 0 THEN Raised("IndexError") ELSE None
        /\ UNCHANGED <<store, env>>

\* one of the requests in flight completes
FetchOneDone ==
    /\ op = "fetch_all"
    /\ result = None
    /\ \E i \in 1..Len(args.items) :
        /\ i \notin Range(args.completed)
        /\ args' = [args EXCEPT !.completed = Append(@, i)]
    /\ UNCHANGED <<store, env, op, result>>

\* asyncio.gather(*tasks): the results in the order of the tasks given
gather(items, completed) ==
    [i \in 1..Len(items) |-> Response(items[i])]

\* every request has completed: gather returns, and so does fetch_all
FetchAllGather ==
    /\ op = "fetch_all"
    /\ result = None
    /\ Len(args.completed) = Len(args.items)
    /\ result' = Returned(gather(args.items, args.completed))
    /\ UNCHANGED <<store, env, op, args>>

NextFetch ==
    \/ FetchAllStart
    \/ FetchOneDone
    \/ FetchAllGather
    \/ Return

SpecFetch == InitRefresh /\ [][NextFetch]_vars

----------------------------------------------------------------------------
(* Vocabulary of the properties *)

Min(a, b) == IF a <= b THEN a ELSE b

StaticCall == op = "static.closest_stops" /\ result.kind = "rows"

SearchCall == op = "StopSearch.closest_stops" /\ result.kind = "rows"

\* distance of a row of the stops table from the origin of the call
RowDist(d) == distance(Point(d.stop_lat, d.stop_lon), args.point)

\* the same for a row of a StopSearch frame
FrameDist(r) == haversine(<<r.lat, r.lon>>, args.point)

\* position of a stop in the stops table, and in the frame of a StopSearch
TableIndex(id) == CHOOSE i \in 1..Len(stops) : stops[i].stop_id = id
FrameIndex(id) == CHOOSE i \in 1..Len(cta_stops) : cta_stops[i].stop_id = id

TableIds == {stops[i].stop_id : i \in 1..Len(stops)}

ParentIds == {id \in TableIds : id >= FIRST_PARENT_ID}

PlatformRows ==
    {d \in Range(stops) : FIRST_TRAIN_ID <= d.stop_id /\ d.stop_id < FIRST_PARENT_ID}

ParentDist(id) == RowDist(stops[TableIndex(id)])

\* the sets of n parent stations nearest to the origin (all of them if fewer)
NearestParents(n) ==
    {P \in SUBSET ParentIds :
        /\ Cardinality(P) = Min(n, Cardinality(ParentIds))
        /\ \A p \in P, q \in ParentIds \ P : ParentDist(p) <= ParentDist(q)}

GroupedCall ==
    StaticCall /\ args.stop_type = "Train" /\ args.group_child_stops

NoDuplicates(rows) == Cardinality(Range(rows)) = Len(rows)

\* C1: grouped train lookup returns exactly the stops whose parent_station is
\* one of the n nearest parent stations: all their platforms, nothing of any
\* other parent, no parent record, and no truncation to n
C1_GroupedResult ==
    GroupedCall =>
        /\ NoDuplicates(result.rows)
        /\ \E P \in NearestParents(args.number) :
              Range(result.rows) = {d \in Range(stops) : d.parent_station \in P}
        /\ \A i \in 1..Len(result.rows) : result.rows[i].stop_id < FIRST_PARENT_ID

\* a grouped lookup that returned more platforms than the limit while a
\* platform of another parent station stayed out
C1_Witness ==
    /\ GroupedCall
    /\ args.number >= 1
    /\ Len(result.rows) > args.number
    /\ \E d \in PlatformRows : d \notin Range(result.rows)

DataModelInvariant ==
    /\ \A d \in PlatformRows : d.parent_station \in ParentIds
    /\ \A p \in ParentIds : \E d \in PlatformRows : d.parent_station = p

\* C3 as stated: on an inventory satisfying the data-model invariant a grouped
\* lookup with limit n returns at least n stops
C3_AtLeastLimit ==
    (GroupedCall /\ DataModelInvariant) => Len(result.rows) >= args.number

\* C3 amended: it returns at least as many stops as the smaller of n and the
\* number of parent stations in the inventory
C3_AtLeastLimitOrParents ==
    (GroupedCall /\ DataModelInvariant) =>
        Len(result.rows) >= Min(args.number, Cardinality(ParentIds))

\* a grouped lookup on a well-formed inventory with more parent stations than
\* the limit, returning more stops than the limit
C3_Witness ==
    /\ GroupedCall
    /\ DataModelInvariant
    /\ args.number >= 1
    /\ Cardinality(ParentIds) > args.number
    /\ Len(result.rows) > args.number

----------------------------------------------------------------------------
(* Limits and ranking *)

IsBusId(id) == 0 <= id /\ id < FIRST_TRAIN_ID

IsTrainId(id) == id >= FIRST_TRAIN_ID

\* a lookup of static.closest_stops that does not group, with at most one of
\* the two tier flags
PlainCall ==
    /\ StaticCall
    /\ ~(args.stop_type = "Train" /\ args.group_child_stops)
    /\ ~(args.parent_stops_only /\ args.child_stops_only)

\* the stops such a lookup is about: those of the requested type and tier
Candidates ==
    {d \in Range(stops) :
        /\ args.stop_type = "Bus" => IsBusId(d.stop_id)
        /\ args.stop_type = "Train" => IsTrainId(d.stop_id)
        /\ (args.stop_type = "Train" /\ args.parent_stops_only)
              => d.stop_id >= FIRST_PARENT_ID
        /\ (args.stop_type = "Train" /\ args.child_stops_only)
              => d.stop_id < FIRST_PARENT_ID}

BusRouteCall ==
    op \in {"BusRoute.stops_by_distance", "BusStop"} /\ result.kind = "rows"

\* the stops the bus API lists for the route
RouteCandidates == {r \in Range(cta_stops) : r.stop_id < FIRST_TRAIN_ID}

Num(s) == s[2]

\* distance of a returned StopSearch row from the origin of the call
SearchDist(r) == haversine(<<Num(r.lat), Num(r.lon)>>, args.point)

\* C5: the returned list is in non-decreasing order of distance from the
\* origin: in every mode of static.closest_stops, and within the bus part and
\* within the train part of StopSearch.closest_stops
C5_RankedByDistance ==
    /\ StaticCall =>
          \A i, j \in 1..Len(result.rows) :
              i < j => RowDist(result.rows[i]) <= RowDist(result.rows[j])
    /\ SearchCall =>
          \A i, j \in 1..Len(result.rows) :
              (i < j /\ result.rows[i].type = result.rows[j].type)
                  => SearchDist(result.rows[i]) <= SearchDist(result.rows[j])

\* a grouped lookup whose platforms come out in order of distance although
\* the inventory lists them the other way round
C5_Witness ==
    /\ GroupedCall
    /\ \E i, j \in 1..Len(result.rows) :
          /\ i < j
          /\ RowDist(result.rows[i]) < RowDist(result.rows[j])
          /\ TableIndex(result.rows[i].stop_id) > TableIndex(result.rows[j].stop_id)

\* C6: ranking is stable: two stops at equal distance from the origin come
\* out in the order the inventory lists them, in static.closest_stops and in
\* StopSearch.closest_stops
C6_StableRanking ==
    /\ StaticCall =>
          \A i, j \in 1..Len(result.rows) :
              (i < j /\ RowDist(result.rows[i]) = RowDist(result.rows[j]))
                  => TableIndex(result.rows[i].stop_id) < TableIndex(result.rows[j].stop_id)
    /\ SearchCall =>
          \A i, j \in 1..Len(result.rows) :
              (/\ i < j
               /\ result.rows[i].type = result.rows[j].type
               /\ SearchDist(result.rows[i]) = SearchDist(result.rows[j]))
                  => FrameIndex(Num(result.rows[i].stop_id))
                         < FrameIndex(Num(result.rows[j].stop_id))

----------------------------------------------------------------------------
(* Stop types *)

\* C7: the stop_type filter restricts by stop_id range: "Bus" yields only
\* ids in 0..29999 and "Train" only ids from 30000, from CTAdb.stops and so
\* from static.closest_stops
C7_TypeFilterByIdRange ==
    (op \in {"CTAdb.stops", "static.closest_stops"} /\ result.kind = "rows") =>
        \A i \in 1..Len(result.rows) :
            /\ args.stop_type = "Bus" => IsBusId(result.rows[i].stop_id)
            /\ args.stop_type = "Train" => IsTrainId(result.rows[i].stop_id)

\* C8: StopSearch.closest_stops with stop_type "train" returns only train
\* stops and with "bus" only bus stops, whatever the filters leave
C8_SearchTypeOnly ==
    SearchCall =>
        \A i \in 1..Len(result.rows) :
            /\ args.stop_type = "train" =>
                  (result.rows[i].type = "train" /\ IsTrainId(Num(result.rows[i].stop_id)))
            /\ args.stop_type = "bus" =>
                  (result.rows[i].type = "bus" /\ IsBusId(Num(result.rows[i].stop_id)))

\* a stop of the StopSearch frame passes every filter the caller gave
PassesFilters(r) ==
    /\ args.routes # None =>
          \E i \in 1..Len(route_stops) : \E k \in 1..Len(args.routes[1]) :
              /\ route_stops[i].stop_id = Str(r.stop_id)
              /\ route_stops[i].rt = Title(args.routes[1][k])
    /\ args.exclude_stops # None => Str(r.stop_id) \notin Range(args.exclude_stops[1])
    /\ (r.stop_id < FIRST_TRAIN_ID /\ BusDirections(args.directions) # None) =>
          translate_bus_dir(r) \in BusDirections(args.directions)[1]
    /\ (r.stop_id >= FIRST_TRAIN_ID /\ TrainDirections(args.directions) # None) =>
          TrainDir(train_stops, r.stop_id) \in TrainDirections(args.directions)[1]

\* both types are requested and both yield results
BothYield ==
    /\ op = "StopSearch.closest_stops"
    /\ args.stop_type = "None"
    /\ BusLimit(args.limit) >= 1
    /\ TrainLimit(args.limit) >= 1
    /\ \E r \in Range(cta_stops) : r.stop_id < FIRST_TRAIN_ID /\ PassesFilters(r)
    /\ \E r \in Range(cta_stops) :
          FIRST_TRAIN_ID <= r.stop_id /\ r.stop_id < FIRST_PARENT_ID /\ PassesFilters(r)

\* C9: when both types are requested and both yield results, the result is
\* the ranked bus list, at most the bus limit long, followed by the ranked
\* train list, at most the train limit long: no train stop precedes a bus stop
C9_BusThenTrain ==
    BothYield =>
        /\ result.kind = "rows"
        /\ \E k \in 1..Len(result.rows) - 1 :
              /\ k <= BusLimit(args.limit)
              /\ Len(result.rows) - k <= TrainLimit(args.limit)
              /\ \A i \in 1..k : result.rows[i].type = "bus"
              /\ \A i \in k + 1..Len(result.rows) : result.rows[i].type = "train"
              /\ \A i \in 1..Len(result.rows) - 1 :
                    i # k => SearchDist(result.rows[i]) <= SearchDist(result.rows[i + 1])

\* both lists were returned, and the first train stop is closer to the origin
\* than the bus stop before it
C9_Witness ==
    /\ BothYield
    /\ result.kind = "rows"
    /\ \E k \in 1..Len(result.rows) - 1 :
          /\ result.rows[k].type = "bus"
          /\ result.rows[k + 1].type = "train"
          /\ SearchDist(result.rows[k + 1]) < SearchDist(result.rows[k])

CountRows(rows, Test(_)) == Cardinality({i \in 1..Len(rows) : Test(rows[i])})

\* C10: static.closest_stops with stop_type unspecified and limit n returns
\* the n closest bus stops followed by the n closest train stops, never
\* interleaved by distance
C10_AnyTypeBusThenTrain ==
    (/\ StaticCall
     /\ args.stop_type = "None"
     /\ ~args.group_child_stops /\ ~args.parent_stops_only /\ ~args.child_stops_only) =>
        LET IsBusRow(d) == IsBusId(d.stop_id)
            IsTrainRow(d) == IsTrainId(d.stop_id)
        IN  /\ CountRows(result.rows, IsBusRow) = Min(args.number, CountRows(stops, IsBusRow))
            /\ CountRows(result.rows, IsTrainRow) = Min(args.number, CountRows(stops, IsTrainRow))
            /\ \A i, j \in 1..Len(result.rows) :
                  (IsTrainRow(result.rows[i]) /\ IsBusRow(result.rows[j])) => j < i

----------------------------------------------------------------------------
(* Failure semantics *)

\* the stops of the StopSearch frame a lookup is about: bus stops and
\* platforms of the requested type that pass every filter
SearchCandidates ==
    {r \in Range(cta_stops) :
        /\ r.stop_id < FIRST_PARENT_ID
        /\ args.stop_type = "bus" => r.stop_id < FIRST_TRAIN_ID
        /\ args.stop_type = "train" => r.stop_id >= FIRST_TRAIN_ID
        /\ PassesFilters(r)}

\* C11: a lookup whose filters leave no candidate returns an empty list, not
\* an error: StopSearch.closest_stops when no stop passes the routes,
\* exclusion and direction filters, and both lookups on an empty inventory
C11_EmptyNotError ==
    /\ (op = "StopSearch.closest_stops" /\ SearchCandidates = {}) =>
          result = Returned(<<>>)
    /\ (op = "static.closest_stops" /\ Len(stops) = 0) =>
          result = Returned(<<>>)

\* a lookup whose origin is a text for which the geocoding service finds no
\* place
GeocodeMiss ==
    /\ op \in {"static.closest_stops", "BusStop"}
    /\ args.origin = "q"
    /\ args.response = <<>>

\* C12: a lookup given a text the geocoding service finds no place for fails
\* with GeocodeError: static.closest_stops(q=...) and the text-location path
\* of BusStop
C12_GeocodeError ==
    GeocodeMiss => result = Raised("GeocodeError")

\* the errors of the library's contract
TypedErrors == {"GeocodeError", "StoreUnavailableError"}

\* C13: whatever the number and type of its positional arguments,
\* closest_stops returns a list or raises a typed error: never None, never an
\* untyped error
C13_ListOrTypedError ==
    op \in {"static.closest_stops", "StopSearch.closest_stops"} =>
        \/ result.kind = "rows"
        \/ result.kind = "error" /\ result.exc \in TypedErrors

----------------------------------------------------------------------------
(* Determinism *)

----------------------------------------------------------------------------
(* Snapshots *)

\* C15: while the refresh job replaces the data files, every lookup computes
\* its result from one snapshot: the stop list, the route-to-stop table and
\* the train-station table a StopSearch lookup uses are of one version
\* (static.closest_stops reads the stops table alone, in one query)
C15_OneSnapshot ==
    op = "StopSearch.closest_stops" =>
        /\ held.cta_stops = held.route_stops
        /\ held.route_stops = held.train_stops

----------------------------------------------------------------------------
(* Exclusion *)

\* C16: no stop whose id is in exclude_stops is in the result of
\* StopSearch.closest_stops, whichever other filters are given, a routes
\* filter included
C16_ExcludedNeverReturned ==
    (SearchCall /\ args.exclude_stops # None) =>
        \A i \in 1..Len(result.rows) :
            result.rows[i].stop_id \notin Range(args.exclude_stops[1])

----------------------------------------------------------------------------
(* Direction filters *)

\* the rows of one type in a returned frame; an error is its own part
TypePart(res, type) ==
    IF res.kind = "rows"
    THEN LET OfType(r) == r.type = type IN SelectSeq(res.rows, OfType)
    ELSE res

\* what the call returns when the directions filter is left out
Unfiltered ==
    StopSearch_closest_stops(cta_stops, route_stops, train_stops,
        args.point[1], args.point[2], args.routes, None, args.limit,
        args.stop_type, args.exclude_stops)

\* directions was given as a dict
SubFilterCall == op = "StopSearch.closest_stops" /\ Len(args.directions) = 2

\* C17: with directions given as a dict of "bus" and "train" sub-filters,
\* each sub-filter constrains stops of its own type only: with a bus
\* sub-filter alone the train part of the result is that of the call without
\* directions, and with a train sub-filter alone the bus part is
C17_SubFiltersByType ==
    SubFilterCall =>
        /\ args.directions[2] = None =>
              TypePart(result, "train") = TypePart(Unfiltered, "train")
        /\ args.directions[1] = None =>
              TypePart(result, "bus") = TypePart(Unfiltered, "bus")

\* the direction codes
Compass == {"N", "S", "E", "W"}

\* C18: with a directions filter, every returned stop of a filtered type has
\* a direction code in N, S, E, W that is among the requested ones; a stop
\* of unknown direction is left out, whatever spellings the filter holds
C18_OnlyRequestedDirections ==
    (SearchCall /\ args.directions # None) =>
        \A i \in 1..Len(result.rows) :
            LET r == result.rows[i]
                dirs == IF r.type = "bus" THEN BusDirections(args.directions)
                        ELSE TrainDirections(args.directions)
            IN  dirs # None => (r.dir \in Compass /\ r.dir \in dirs[1])

----------------------------------------------------------------------------
(* Tiers of the train hierarchy *)

ParentRows == {d \in Range(stops) : d.stop_id >= FIRST_PARENT_ID}

\* a train lookup that asks for parent stations alone, without grouping
ParentsOnlyCall ==
    /\ StaticCall
    /\ args.stop_type = "Train"
    /\ ~args.group_child_stops
    /\ args.parent_stops_only
    /\ ~args.child_stops_only

\* a train lookup that asks for platforms alone, without grouping
ChildrenOnlyCall ==
    /\ StaticCall
    /\ args.stop_type = "Train"
    /\ ~args.group_child_stops
    /\ args.child_stops_only
    /\ ~args.parent_stops_only

\* the result is made of the n nearest stops of the tier, all of the tier if
\* it has fewer than n
NearestOfTier(tier) ==
    /\ Range(result.rows) \subseteq tier
    /\ NoDuplicates(result.rows)
    /\ Len(result.rows) = Min(args.number, Cardinality(tier))
    /\ \A c \in tier \ Range(result.rows) :
          \A i \in 1..Len(result.rows) : RowDist(c) >= RowDist(result.rows[i])

\* C19: with stop_type "Train", parent_stops_only returns parent stations
\* only, the n nearest of them, and child_stops_only returns platforms only,
\* the n nearest of them: the tier is selected from the ranked list before
\* the list is cut to n
C19_TierBeforeTruncation ==
    /\ ParentsOnlyCall => NearestOfTier(ParentRows)
    /\ ChildrenOnlyCall => NearestOfTier(PlatformRows)

\* a parents-only lookup that returned n >= 1 parent stations although a
\* platform is nearer to the origin than the last of them
C19_Witness ==
    /\ ParentsOnlyCall
    /\ args.number >= 1
    /\ Len(result.rows) = args.number
    /\ \E d \in PlatformRows : RowDist(d) < RowDist(result.rows[Len(result.rows)])

----------------------------------------------------------------------------
(* Distance *)

\* C20: the distance function is symmetric: get_distance(a.lat, a.lon,
\* b.lat, b.lon) is get_distance(b.lat, b.lon, a.lat, a.lon) for all points
\* a and b
C20_Symmetric ==
    op = "get_distance" =>
        result.value = get_distance(args.b[1], args.b[2], args.a[1], args.a[2])

\* a distance was computed between two points that differ in latitude and in
\* longitude
C20_Witness ==
    /\ op = "get_distance"
    /\ args.a[1] # args.b[1]
    /\ args.a[2] # args.b[2]
    /\ result.value > 0

----------------------------------------------------------------------------
(* Denotations of a direction *)

\* C21: CTAdb.L_stops(direction_id=d) accepts every documented denotation of
\* a direction and returns exactly the train stops whose stored direction_id
\* is the one-letter code of d
C21_DenotationsAccepted ==
    (op = "CTAdb.L_stops" /\ args.direction_id # None) =>
        LET code == validate_direction_id(args.direction_id[1])
            HasCode(r) == r.direction_id = code
        IN  result = Returned(SelectSeq(L_STOPS, HasCode))

----------------------------------------------------------------------------
(* Forms of the origin *)

\* C22: StopSearch.closest_stops takes its origin as one list or tuple, as
\* one "lat,lon" string or as two arguments, and the three forms of the same
\* coordinates return what the two-argument form returns
C22_OriginFormsAgree ==
    (op = "StopSearch.closest_stops" /\ args.origin \in {"pair", "string", "two"}) =>
        result = StopSearch_closest_stops(cta_stops, route_stops, train_stops,
                     args.point[1], args.point[2], args.routes, args.directions,
                     args.limit, args.stop_type, args.exclude_stops)

----------------------------------------------------------------------------
(* Replacement of the stop data *)

\* the versions of the stop data that exist
FeedVersions == 1..MaxVersion

\* C23: the refresh replaces the stop table wholesale: a reader running
\* while update_static_db("stops") or update_static_feed runs gets the
\* complete stop data of one version: never a missing, empty or partly
\* written table, nor one whose ids are not yet cast to integers
C23_WholesaleReplacement ==
    /\ (op = "CTAdb.stops" /\ args.stop_type = "None") =>
          \E v \in FeedVersions : result = Returned(update_static_db(FeedOf(v)))
    /\ op = "get_stops" =>
          \E v \in FeedVersions : result = Returned(FeedOf(v))

----------------------------------------------------------------------------
(* When the feed is downloaded *)

\* the files update_static_feed writes, in directory state g
LocalFiles(g) ==
    <<g.updated, g.stops, g.stop_times, g.bus_stop_times, g.train_stop_times>>

\* a call of update_static_feed has returned
FeedDone == job = "idle" /\ run.outcome = "done"

\* C24: update_static_feed(force_update) downloads and extracts the archive
\* if and only if the recorded timestamp differs from the upstream publish
\* timestamp or force_update is True; otherwise it changes no local file, so
\* a non-forced call after a successful update with unchanged upstream
\* downloads nothing
C24_DownloadIffStaleOrForced ==
    FeedDone =>
        /\ run.downloaded <=>
              (run.last_time_downloaded # run.timestamp \/ run.force_update)
        /\ run.downloaded => (gtfs.stops = run.zip /\ gtfs.stop_times = run.zip)
        /\ ~run.downloaded =>
              (feed = run.before[1] /\ LocalFiles(gtfs) = LocalFiles(run.before[2]))

\* a non-forced call that downloaded nothing, after an earlier call had
\* downloaded version 2 and recorded its timestamp
C24_Witness ==
    /\ FeedDone
    /\ ~run.force_update
    /\ ~run.downloaded
    /\ run.last_time_downloaded = 2
    /\ LocalFiles(gtfs) = <<2, 2, 2, 2, 2>>

----------------------------------------------------------------------------
(* Derived attributes *)

\* C25: every derived classification agrees with the stop_id range:
\* save_stop_transfers sets is_train_station iff stop_id >= 30000 and
\* is_parent_station iff stop_id >= 40000; add_supplementary_keys sets
\* stop_type "bus" iff stop_id < 30000 and is_parent iff stop_id >= 40000;
\* so a parent is a train stop and no stop is both bus and train
C25_ClassifiedByIdRange ==
    /\ op = "save_stop_transfers" =>
          \A i \in 1..Len(result.rows) :
              LET d == result.rows[i]
              IN  /\ d.is_train_station <=> d.stop_id >= FIRST_TRAIN_ID
                  /\ d.is_parent_station <=> d.stop_id >= FIRST_PARENT_ID
                  /\ d.is_parent_station => d.is_train_station
    /\ op = "add_supplementary_keys" =>
          \A i \in 1..Len(result.rows) :
              LET d == result.rows[i]
              IN  /\ d.stop_type \in {"bus", "train"}
                  /\ d.stop_type = "bus" <=> d.stop_id < FIRST_TRAIN_ID
                  /\ d.is_parent <=> d.stop_id >= FIRST_PARENT_ID
                  /\ d.is_parent => d.stop_type = "train"

\* add_supplementary_keys has marked a bus stop and a parent station
C25_Witness ==
    /\ op = "add_supplementary_keys"
    /\ \E i, j \in 1..Len(result.rows) :
          /\ result.rows[i].stop_type = "bus"
          /\ result.rows[j].is_parent

\* C27: after add_supplementary_keys every bus stop whose description names
\* a direction has a direction_id and a direction label that agree with each
\* other and with the description: DIRECTIONS[direction_id] is direction,
\* for northbound, southbound, eastbound and westbound
C27_DirectionKeysAgree ==
    op = "add_supplementary_keys" =>
        \A i \in 1..Len(result.rows) :
            LET d == result.rows[i]
            IN  (d.stop_type = "bus" /\ d.stop_desc # {}) =>
                    /\ DIRECTIONS(d.direction_id) = d.direction
                    /\ \E w \in d.stop_desc : lower(d.direction) = w

----------------------------------------------------------------------------
(* Spellings *)

\* C26: static.closest_stops applies the train hierarchy policy for every
\* representation of the train type that CTAdb.stops accepts: the result is
\* that of the call with stop_type "Train", however the type is spelled
C26_SpellingIrrelevant ==
    (op = "static.closest_stops" /\ args.stop_type \in TrainSpellings) =>
        result = Returned(closest_stops(stops, args.point[1], args.point[2],
                     args.number, "Train", args.child_stops_only,
                     args.parent_stops_only, args.group_child_stops))

----------------------------------------------------------------------------
(* The recorded timestamp *)

\* C28: between calls of update_static_feed, calls that fail at any step
\* included, the recorded timestamp names the version every local file
\* comes from: the extracted stops.txt and stop_times.txt and the derived
\* bus_stop_times and train_stop_times files
C28_TimestampNamesFiles ==
    job \notin FeedSteps =>
        LocalFiles(gtfs) = <<gtfs.updated, gtfs.updated, gtfs.updated, gtfs.updated,
                             gtfs.updated>>

----------------------------------------------------------------------------
(* Precedence of the hierarchy flags *)

\* what static.closest_stops returns for the arguments of the call with the
\* three flags replaced by c, p and g
WithFlags(c, p, g) ==
    Returned(closest_stops(stops, args.point[1], args.point[2], args.number,
                           args.stop_type, c, p, g))

\* C29: static.closest_stops applies one hierarchy policy per call and
\* raises no error when several flags are set: group_child_stops prevails
\* over parent_stops_only, which prevails over child_stops_only, and the
\* result is that of the call with the prevailing flag alone; for stop_type
\* "Bus" the result does not depend on the flags
C29_OnePolicyByPrecedence ==
    op = "static.closest_stops" =>
        /\ result.kind = "rows"
        /\ args.stop_type = "Train" =>
              result = WithFlags(
                  ~args.group_child_stops /\ ~args.parent_stops_only /\ args.child_stops_only,
                  ~args.group_child_stops /\ args.parent_stops_only,
                  args.group_child_stops)
        /\ args.stop_type = "Bus" => result = WithFlags(FALSE, FALSE, FALSE)

\* a train lookup with the three flags set, whose result is neither that of
\* parent_stops_only alone nor that of child_stops_only alone
C29_Witness ==
    /\ op = "static.closest_stops"
    /\ args.stop_type = "Train"
    /\ args.group_child_stops /\ args.parent_stops_only /\ args.child_stops_only
    /\ result # WithFlags(FALSE, TRUE, FALSE)
    /\ result # WithFlags(TRUE, FALSE, FALSE)
    /\ Len(result.rows) > 0

----------------------------------------------------------------------------
(* Concurrent requests *)

\* C30: fetch_all(urls) returns one response per input URL, in the order of
\* the input list, whatever order the requests complete in; an argument
\* that is not a list is treated as a list of one element
C30_OneResponsePerUrlInOrder ==
    (op = "fetch_all" /\ result # None) =>
        result = Returned([i \in 1..Len(args.items) |-> Response(args.items[i])])

====
